---- MODULE Spec2Model ----
(***************************************************************************)
(* A model of jcat.py's activity feed: handle_session_follow (history      *)
(* fetch, poll loop, seen-set), print_activity (rendering and the commit   *)
(* confirmation) and handle_session_commit, against a server whose feed    *)
(* is append-only; and of print_activity and truncate_output called        *)
(* directly on arguments drawn from bounded sets.                          *)
(*                                                                         *)
(* Python dicts are functions from keys to values ('k in d' is             *)
(* k \in DOMAIN d), strings that the code takes apart are sequences of     *)
(* one-character strings, of path segments or of lines, JSON null is Null. *)
(***************************************************************************)
EXTENDS Naturals, Sequences, FiniteSets, TLC

\* ------------------------------------------------------------------ bounds
\* The longest feed the server builds.
MaxFeed == 2
\* The observation counters saturate here.
Cap == 2

\* ------------------------------------------------------- program constants
HistoryPageSize == 10
PollPageSize == 1
PollInterval == 5
ErrorBackoff == 10

VARIABLES
    feed,                 \* the server's append-only activity feed, oldest first
    fatal,                \* the server rejects every request (bad credential, no such session)
    pc,                   \* where handle_session_follow is
    phase,                \* "history" (first try block) or "poll" (the while loop)
    seen_activity_names,  \* the local set of handle_session_follow
    batch,                \* the sorted list the for loop iterates
    idx,                  \* the for loop's position in batch
    stat,                 \* per activity name: what this invocation did with it
    msg,                  \* the last status line printed
    slept,                \* the length of the last completed time.sleep (0: none yet)
    exc,                  \* the exception the last step raised into handle_session_follow
    invocations,          \* how many times handle_session_follow was called (saturating)
    appended_in_poll,     \* names the server appended while the poll loop was running
    response,             \* the activities of the last response, in the order received
    events,               \* what the latest print_activity call did, in order
    fetch,                \* the GETs of this invocation: history fetches made, last pageSize asked
    last_create_time,     \* createTime of the activity print_activity was last called on, <<>> before
    call,                 \* a direct call of print_activity or truncate_output: its arguments
    result                \* what that call returned or raised

vars == <<feed, fatal, pc, phase, seen_activity_names, batch, idx, stat, msg,
          slept, exc, invocations, appended_in_poll, response, events, fetch,
          last_create_time, call, result>>

\* ----------------------------------------------------------------- values
Null == [null |-> TRUE]
EmptyDict == [k \in {} |-> TRUE]
NoPrompt == "(no prompt)"
NoEndpoint == [session |-> <<>>, verb |-> "(none)"]
NoExc == [type |-> "none", phase |-> "none"]
NoFetch == [history |-> 0, pageSize |-> 0]
NoCall == [fn |-> "(none)"]
NoResult == [raised |-> "(no call)"]

IsMapping(v) == "null" \notin DOMAIN v

Min(a, b) == IF a < b THEN a ELSE b

Inc(n) == Min(n + 1, Cap)

\* The session the command follows, as path segments: sessions/123.
session_id == <<"sessions", "123">>

\* The name the server gives the i-th activity of the feed:
\* sessions/123/activities/<i>.
Name(i) == session_id \o <<"activities", ToString(i)>>

Names == {Name(i) : i \in 1..MaxFeed}

\* Characters in code-point order, for Python's string comparison.
Alphabet == <<"-", ".", "0", "1", "2", "3", "4", "5", "6", "7", "8", "9", ":", "T", "Z">>

Ord(c) == CHOOSE i \in 1..Len(Alphabet) : Alphabet[i] = c

\* s < t for Python strings.
StrLess(s, t) ==
    \E k \in 0..Min(Len(s), Len(t)) :
        /\ \A i \in 1..k : s[i] = t[i]
        /\ \/ k = Len(s) /\ k < Len(t)
           \/ k < Len(s) /\ k < Len(t) /\ Ord(s[k + 1]) < Ord(t[k + 1])

\* ----------------------------------------------------------- the payloads
\* What the server may append (the name is added on append).
MessagePayload ==
    [createTime |-> <<"2">>, originator |-> <<"a", "g", "e", "n", "t">>,
     message |-> [content |-> "hi"]]

CommitPayload ==
    [createTime |-> <<"1", "0">>,
     sessionCompleted |->
        [commitInfo |-> [suggestedCommitMessage |-> <<"feat: Implement new feature">>]]]

PlanPayload ==
    [createTime |-> <<"1">>,
     planGenerated |->
        [plan |-> [reasoning |-> "A plan that needs approval.",
                   state |-> "NEEDS_APPROVAL",
                   steps |-> <<[title |-> "Do something"]>>]]]

\* "message": null -- print_activity raises after the header.
NullBodyPayload == [createTime |-> <<"2">>, message |-> Null]

\* no createTime -- the sort key raises KeyError.
NoTimePayload == [originator |-> <<"u", "s", "e", "r">>, message |-> [content |-> "hi"]]

GoodPayloads == {MessagePayload, CommitPayload, PlanPayload}

Payloads == GoodPayloads \cup {NullBodyPayload, NoTimePayload}

\* ------------------------------------------------------------- the server
\* The newest n activities of the feed.
Newest(f, n) == SubSeq(f, Len(f) - Min(n, Len(f)) + 1, Len(f))

Orderings(s) ==
    {[i \in 1..Len(s) |-> s[p[i]]] :
        p \in {q \in [1..Len(s) -> 1..Len(s)] : \A i, j \in 1..Len(s) : q[i] = q[j] => i = j}}

\* GET {session}/activities?pageSize=n: the newest n, in an order the client
\* does not rely on; no 'activities' key when there is none.
GetResponses(f, n) ==
    IF f = <<>> THEN {EmptyDict}
    ELSE {[activities |-> s] : s \in Orderings(Newest(f, n))}

\* ------------------------------------------------------------------ sorted
\* sorted(list, key=lambda x: x['createTime']) raises KeyError.
SortRaises(list) == \E i \in 1..Len(list) : "createTime" \notin DOMAIN list[i]

\* Insert with x put before the elements whose key equals its own.
InsertBeforeEqual(t, x) ==
    LET k == Cardinality({i \in 1..Len(t) : StrLess(t[i].createTime, x.createTime)})
    IN  SubSeq(t, 1, k) \o <<x>> \o SubSeq(t, k + 1, Len(t))

\* x put after every element whose key is <= its own (t is sorted).
Insert(t, x) ==
    LET k == Cardinality({i \in 1..Len(t) : ~StrLess(x.createTime, t[i].createTime)})
    IN  SubSeq(t, 1, k) \o <<x>> \o SubSeq(t, k + 1, Len(t))

\* The batch rendered in the order of the response.
sortedAsFetched(list) == list

RECURSIVE sorted(_)
sorted(list) ==
    IF list = <<>> THEN <<>>
    ELSE Insert(sorted(SubSeq(list, 1, Len(list) - 1)), list[Len(list)])

\* ---------------------------------------------------------- print_activity
\* Kind with the sessionCompleted test moved to the front of the chain.
KindCompletedFirst(activity) ==
    IF "sessionCompleted" \in DOMAIN activity THEN "sessionCompleted"
    ELSE IF "message" \in DOMAIN activity THEN "message"
    ELSE IF "planGenerated" \in DOMAIN activity THEN "planGenerated"
    ELSE IF "progressUpdated" \in DOMAIN activity THEN "progressUpdated"
    ELSE IF "planApproved" \in DOMAIN activity THEN "planApproved"
    ELSE "unknown"

\* The branch print_activity takes.
Kind(activity) ==
    IF "message" \in DOMAIN activity THEN "message"
    ELSE IF "planGenerated" \in DOMAIN activity THEN "planGenerated"
    ELSE IF "progressUpdated" \in DOMAIN activity THEN "progressUpdated"
    ELSE IF "planApproved" \in DOMAIN activity THEN "planApproved"
    ELSE IF "sessionCompleted" \in DOMAIN activity THEN "sessionCompleted"
    ELSE "unknown"

\* The sessionCompleted branch found a prepared commit.
HasCommitInfo(activity) ==
    /\ Kind(activity) = "sessionCompleted"
    /\ "commitInfo" \in DOMAIN activity.sessionCompleted
    /\ "suggestedCommitMessage" \in DOMAIN activity.sessionCompleted.commitInfo

\* print_activity raises while printing: .get on a null body, 'in' on null,
\* activity['name'] on an activity without one.
PrintRaises(activity) ==
    \/ Kind(activity) = "message" /\ ~IsMapping(activity.message)
    \/ Kind(activity) = "planGenerated" /\ ~IsMapping(activity.planGenerated)
    \/ Kind(activity) = "progressUpdated" /\ ~IsMapping(activity.progressUpdated)
    \/ Kind(activity) = "sessionCompleted" /\ ~IsMapping(activity.sessionCompleted)
    \/ HasCommitInfo(activity) /\ "name" \notin DOMAIN activity

CommitPrompt == "Do you want to create this commit and open a Pull Request?"

\* Prompt without the 'client and' test.
PromptWithoutClient(activity, client) ==
    IF HasCommitInfo(activity) THEN CommitPrompt ELSE NoPrompt

\* The confirmation print_activity asks after the content, NoPrompt if none.
Prompt(activity, client) ==
    IF HasCommitInfo(activity) /\ client THEN CommitPrompt ELSE NoPrompt

\* activity['name'].split('/activities/')[0]: the segments before the first
\* 'activities' segment that has one before and one after it.
session_name(name) ==
    LET cut == {k \in 2..(Len(name) - 1) : name[k] = "activities"}
    IN  IF cut = {} THEN name
        ELSE SubSeq(name, 1, (CHOOSE k \in cut : \A j \in cut : k <= j) - 1)

\* The endpoint handle_session_commit posts to: "{session_id}:commit".
CommitEndpoint(session) == [session |-> session, verb |-> "commit"]

ZeroStat ==
    [returned |-> 0, started |-> 0, printed |-> 0, asked |-> 0, prompt |-> NoPrompt, accepted |-> 0,
     posted |-> 0, endpoint |-> NoEndpoint, failed |-> 0, completed |-> 0]

\* ------------------------------------------------- handle_session_follow
\* NextUnseen without the 'not in seen_activity_names' test.
NextUnseenIgnoringSeen(b, i, seen) == IF i <= Len(b) THEN i ELSE Len(b) + 1

\* The first position >= i of the for loop whose activity is not skipped.
NextUnseen(b, i, seen) ==
    IF \E j \in i..Len(b) : "name" \notin DOMAIN b[j] \/ b[j].name \notin seen
    THEN CHOOSE j \in i..Len(b) :
            /\ "name" \notin DOMAIN b[j] \/ b[j].name \notin seen
            /\ \A h \in i..(j - 1) : "name" \in DOMAIN b[h] /\ b[h].name \in seen
    ELSE Len(b) + 1

\* ExceptClause with a poll loop that gives up on an Exception.
ExceptClauseBreaking(ph, type) ==
    IF ph = "history"
    THEN [pc |-> "poll_get", phase |-> "poll", idx |-> 0,
          msg |-> "Could not fetch recent activity history", exc |-> [type |-> type, phase |-> ph]]
    ELSE [pc |-> "done", phase |-> "poll", idx |-> 0,
          msg |-> "An error occurred", exc |-> [type |-> type, phase |-> ph]]

\* An Exception reaches the except clause of the try block of phase ph.
ExceptClause(ph, type) ==
    IF ph = "history"
    THEN [pc |-> "poll_get", phase |-> "poll", idx |-> 0,
          msg |-> "Could not fetch recent activity history", exc |-> [type |-> type, phase |-> ph]]
    ELSE [pc |-> "sleep10", phase |-> "poll", idx |-> 0,
          msg |-> "An error occurred", exc |-> [type |-> type, phase |-> ph]]

\* The for loop is exhausted.
LoopEnd(ph, m) ==
    IF ph = "history"
    THEN [pc |-> "poll_get", phase |-> "poll", idx |-> 0,
          msg |-> "Waiting for new activities...", exc |-> NoExc]
    ELSE [pc |-> "sleep5", phase |-> "poll", idx |-> 0, msg |-> m, exc |-> NoExc]

\* The for loop from position i: skip the seen, call print_activity on the
\* first unseen, or end.
ForLoop(b, i, seen, ph, m) ==
    LET j == NextUnseen(b, i, seen)
    IN  IF j > Len(b) THEN LoopEnd(ph, m)
        ELSE IF "name" \notin DOMAIN b[j] THEN ExceptClause(ph, "KeyError")
        ELSE [pc |-> "print", phase |-> ph, idx |-> j, msg |-> m, exc |-> NoExc]

\* Control moves to ctl; entering "print" is a call of print_activity.
Goto(ctl, b, st) ==
    /\ pc' = ctl.pc
    /\ phase' = ctl.phase
    /\ idx' = ctl.idx
    /\ msg' = ctl.msg
    /\ exc' = ctl.exc
    /\ stat' = IF ctl.pc = "print"
               THEN [st EXCEPT ![b[ctl.idx].name].started = Inc(@)]
               ELSE st
    /\ last_create_time' = IF ctl.pc = "print" THEN b[ctl.idx].createTime
                           ELSE last_create_time

\* Every named activity of a response is counted as returned once more.
Returned(st, list) ==
    [n \in Names |->
        IF \E i \in 1..Len(list) : "name" \in DOMAIN list[i] /\ list[i].name = n
        THEN [st[n] EXCEPT !.returned = Inc(@)]
        ELSE st[n]]

Init ==
    /\ feed = <<>>
    /\ fatal \in BOOLEAN
    /\ pc = "idle"
    /\ phase = "history"
    /\ seen_activity_names = {}
    /\ batch = <<>>
    /\ idx = 0
    /\ stat = [n \in Names |-> ZeroStat]
    /\ msg = ""
    /\ slept = 0
    /\ exc = NoExc
    /\ invocations = 0
    /\ appended_in_poll = {}
    /\ response = <<>>
    /\ events = <<>>
    /\ fetch = NoFetch
    /\ last_create_time = <<>>
    /\ call = NoCall
    /\ result = NoResult

\* The server appends an activity to the feed.
AppendWith(payloads) ==
    /\ Len(feed) < MaxFeed
    /\ \E p \in payloads :
        feed' = Append(feed, p @@ ("name" :> Name(Len(feed) + 1)))
    /\ appended_in_poll' =
        IF phase = "poll" /\ pc \notin {"idle", "done", "raised"}
        THEN appended_in_poll \cup {Name(Len(feed) + 1)}
        ELSE appended_in_poll
    /\ UNCHANGED <<fatal, last_create_time, fetch, call, result, response, events, pc, phase,
                   seen_activity_names,
                   batch, idx, stat, msg, slept, exc, invocations>>

ServerAppend == AppendWith(Payloads)

\* Invoke with a seen-set that outlives the call (a module-level set).
InvokeKeepingSeen ==
    /\ pc \in {"idle", "done", "raised"}
    /\ pc' = "history_get"
    /\ phase' = "history"
    /\ batch' = <<>>
    /\ idx' = 0
    /\ stat' = [n \in Names |-> ZeroStat]
    /\ msg' = "Following session"
    /\ slept' = 0
    /\ exc' = NoExc
    /\ invocations' = Inc(invocations)
    /\ appended_in_poll' = {}
    /\ response' = <<>>
    /\ events' = <<>>
    /\ fetch' = NoFetch
    /\ last_create_time' = <<>>
    /\ UNCHANGED <<feed, fatal, call, result, seen_activity_names>>

\* handle_session_follow is called.
Invoke ==
    /\ pc \in {"idle", "done", "raised"}
    /\ pc' = "history_get"
    /\ phase' = "history"
    /\ seen_activity_names' = {}
    /\ batch' = <<>>
    /\ idx' = 0
    /\ stat' = [n \in Names |-> ZeroStat]
    /\ msg' = "Following session"
    /\ slept' = 0
    /\ exc' = NoExc
    /\ invocations' = Inc(invocations)
    /\ appended_in_poll' = {}
    /\ response' = <<>>
    /\ events' = <<>>
    /\ fetch' = NoFetch
    /\ last_create_time' = <<>>
    /\ UNCHANGED <<feed, fatal, call, result>>

\* A GET with pageSize was sent in phase ph.
Fetched(ph, pageSize) ==
    [history |-> IF ph = "history" THEN Inc(fetch.history) ELSE fetch.history,
     pageSize |-> pageSize]

\* client.get raises (network, HTTP status).
GetFails(at, ph, pageSize) ==
    /\ pc = at
    /\ fetch' = Fetched(ph, pageSize)
    /\ Goto(ExceptClause(ph, "RequestException"), batch, stat)
    /\ UNCHANGED <<feed, fatal, call, result, response, events, seen_activity_names, batch,
                   slept, invocations, appended_in_poll>>

\* client.get returns; the batch is sorted and the for loop starts.
GetReturns(at, ph, pageSize) ==
    /\ pc = at
    /\ ~fatal
    /\ fetch' = Fetched(ph, pageSize)
    /\ \E data \in GetResponses(feed, pageSize) :
        IF DOMAIN data # {} /\ "activities" \in DOMAIN data
        THEN /\ response' = data.activities
             /\ IF SortRaises(data.activities)
                THEN /\ Goto(ExceptClause(ph, "KeyError"), batch, Returned(stat, data.activities))
                     /\ batch' = batch
                ELSE /\ batch' = sorted(data.activities)
                     /\ Goto(ForLoop(batch', 1, seen_activity_names, ph, msg), batch',
                             Returned(stat, data.activities))
        ELSE /\ response' = <<>>
             /\ batch' = <<>>
             /\ Goto(LoopEnd(ph, msg), batch', stat)
    /\ UNCHANGED <<feed, fatal, call, result, events, seen_activity_names, slept, invocations,
                   appended_in_poll>>

\* The failed history fetch leaving handle_session_follow.
HistoryGetFailsLeaving ==
    /\ pc = "history_get"
    /\ fetch' = Fetched("history", HistoryPageSize)
    /\ pc' = "raised"
    /\ exc' = [type |-> "RequestException", phase |-> "history"]
    /\ UNCHANGED <<feed, fatal, last_create_time, call, result, response, events, phase,
                   seen_activity_names,
                   batch, idx, stat, msg, slept, invocations, appended_in_poll>>

HistoryGetFails == GetFails("history_get", "history", HistoryPageSize)

HistoryGetReturns == GetReturns("history_get", "history", HistoryPageSize)

PollGetFails == GetFails("poll_get", "poll", PollPageSize)

PollGetReturns == GetReturns("poll_get", "poll", PollPageSize)

\* Return without seen_activity_names.add(activity['name']).
ReturnForgetting(st, m) ==
    LET name == batch[idx].name
    IN  /\ seen_activity_names' = seen_activity_names
        /\ Goto(ForLoop(batch, idx + 1, seen_activity_names, phase, m),
                batch, [st EXCEPT ![name].completed = Inc(@)])

\* print_activity returned, m the last line it printed: the name is added
\* and the for loop goes on.
Return(st, m) ==
    LET name == batch[idx].name
        seen == seen_activity_names \cup {name}
    IN  /\ seen_activity_names' = seen
        /\ Goto(ForLoop(batch, idx + 1, seen, phase, m),
                batch, [st EXCEPT ![name].completed = Inc(@)])

\* PrintRaise with the name added before print_activity is called.
PrintRaiseMarkingSeen ==
    /\ pc = "print"
    /\ PrintRaises(batch[idx])
    /\ seen_activity_names' = seen_activity_names \cup {batch[idx].name}
    /\ Goto(ExceptClause(phase, "AttributeError"), batch, stat)
    /\ events' = <<"content", "raise">>
    /\ UNCHANGED <<feed, fatal, fetch, call, result, response, batch, slept, invocations,
                   appended_in_poll>>

\* print_activity prints the content and raises part-way.
PrintRaise ==
    /\ pc = "print"
    /\ PrintRaises(batch[idx])
    /\ Goto(ExceptClause(phase, "AttributeError"), batch, stat)
    /\ events' = <<"content", "raise">>
    /\ UNCHANGED <<feed, fatal, fetch, call, result, response, seen_activity_names, batch, slept,
                   invocations, appended_in_poll>>

\* PrintContent calling handle_session_commit without the confirmation.
PrintContentPostingUnasked ==
    /\ pc = "print"
    /\ ~PrintRaises(batch[idx])
    /\ LET a == batch[idx]
           st == [stat EXCEPT ![a.name].printed = Inc(@)]
       IN  IF Prompt(a, TRUE) # NoPrompt
           THEN /\ pc' = "post"
                /\ stat' = st
                /\ UNCHANGED <<phase, idx, msg, exc, seen_activity_names,
                               last_create_time>>
           ELSE Return(st, msg)
    /\ events' = <<"content">>
    /\ UNCHANGED <<feed, fatal, fetch, call, result, response, batch, slept, invocations,
                   appended_in_poll>>

\* print_activity prints the content, then asks or returns.
PrintContent ==
    /\ pc = "print"
    /\ ~PrintRaises(batch[idx])
    /\ LET a == batch[idx]
           st == [stat EXCEPT ![a.name].printed = Inc(@)]
       IN  IF Prompt(a, TRUE) # NoPrompt
           THEN /\ pc' = "confirm"
                /\ stat' = [st EXCEPT ![a.name].asked = Inc(@),
                                      ![a.name].prompt = Prompt(a, TRUE)]
                /\ UNCHANGED <<phase, idx, msg, exc, seen_activity_names,
                               last_create_time>>
           ELSE Return(st, msg)
    /\ events' = IF Prompt(batch[idx], TRUE) # NoPrompt
                 THEN <<"content", "ask">>
                 ELSE <<"content">>
    /\ UNCHANGED <<feed, fatal, fetch, call, result, response, batch, slept, invocations,
                   appended_in_poll>>

\* questionary.confirm(...).ask() is answered yes: handle_session_commit starts.
ConfirmYes ==
    /\ pc = "confirm"
    /\ pc' = "post"
    /\ msg' = "Creating commit for session"
    /\ stat' = [stat EXCEPT ![batch[idx].name].accepted = Inc(@)]
    /\ events' = Append(events, "yes")
    /\ UNCHANGED <<feed, fatal, fetch, last_create_time, call, result, response, phase,
                   seen_activity_names, batch, idx,
                   slept, exc, invocations, appended_in_poll>>

\* ConfirmNo with the answer ignored: handle_session_commit starts anyway.
ConfirmNoPostingAnyway ==
    /\ pc = "confirm"
    /\ pc' = "post"
    /\ msg' = "Creating commit for session"
    /\ events' = Append(events, "no")
    /\ UNCHANGED <<feed, fatal, fetch, last_create_time, call, result, response, phase,
                   seen_activity_names, batch, idx,
                   stat, slept, exc, invocations, appended_in_poll>>

\* The answer is no (or None: ask() was cancelled): print_activity returns.
ConfirmNo ==
    /\ pc = "confirm"
    /\ Return(stat, msg)
    /\ events' = Append(events, "no")
    /\ UNCHANGED <<feed, fatal, fetch, call, result, response, batch, slept, invocations,
                   appended_in_poll>>

\* handle_session_commit: client.post returns.
CommitPosted ==
    /\ pc = "post"
    /\ ~fatal
    /\ Return([stat EXCEPT ![batch[idx].name].posted = Inc(@),
                           ![batch[idx].name].endpoint =
                                CommitEndpoint(session_name(batch[idx].name))],
              "Commit and Pull Request created successfully!")
    /\ events' = events \o <<"post", "created">>
    /\ UNCHANGED <<feed, fatal, fetch, call, result, response, batch, slept, invocations,
                   appended_in_poll>>

\* CommitFails without handle_session_commit's try: the error reaches the loop.
CommitFailsPropagating ==
    /\ pc = "post"
    /\ Goto(ExceptClause(phase, "RequestException"), batch,
            [stat EXCEPT ![batch[idx].name].posted = Inc(@),
                         ![batch[idx].name].endpoint =
                              CommitEndpoint(session_name(batch[idx].name)),
                         ![batch[idx].name].failed = Inc(@)])
    /\ events' = events \o <<"post", "failed">>
    /\ UNCHANGED <<feed, fatal, fetch, call, result, response, seen_activity_names, batch, slept,
                   invocations, appended_in_poll>>

\* handle_session_commit: client.post raises, the except clause reports it.
CommitFails ==
    /\ pc = "post"
    /\ Return([stat EXCEPT ![batch[idx].name].posted = Inc(@),
                           ![batch[idx].name].endpoint =
                                CommitEndpoint(session_name(batch[idx].name)),
                           ![batch[idx].name].failed = Inc(@)],
              "Failed to create commit")
    /\ events' = events \o <<"post", "failed">>
    /\ UNCHANGED <<feed, fatal, fetch, call, result, response, batch, slept, invocations,
                   appended_in_poll>>

\* time.sleep(5) ends.
Sleep5 ==
    /\ pc = "sleep5"
    /\ pc' = "poll_get"
    /\ slept' = PollInterval
    /\ exc' = NoExc
    /\ UNCHANGED <<feed, fatal, fetch, last_create_time, call, result, response, events,
                   phase, seen_activity_names,
                   batch, idx, stat, msg, invocations, appended_in_poll>>

\* The back-off as short as the poll interval.
Sleep10ForPollInterval ==
    /\ pc = "sleep10"
    /\ pc' = "poll_get"
    /\ slept' = PollInterval
    /\ exc' = NoExc
    /\ UNCHANGED <<feed, fatal, fetch, last_create_time, call, result, response, events,
                   phase, seen_activity_names,
                   batch, idx, stat, msg, invocations, appended_in_poll>>

\* time.sleep(10) ends.
Sleep10 ==
    /\ pc = "sleep10"
    /\ pc' = "poll_get"
    /\ slept' = ErrorBackoff
    /\ exc' = NoExc
    /\ UNCHANGED <<feed, fatal, fetch, last_create_time, call, result, response, events,
                   phase, seen_activity_names,
                   batch, idx, stat, msg, invocations, appended_in_poll>>

\* Where a KeyboardInterrupt raised at pc in phase ph ends up: the while
\* loop's 'except KeyboardInterrupt' covers its try body only.
InterruptCaught(at, ph) == ph = "poll" /\ at \in {"poll_get", "print", "confirm", "post", "sleep5"}

\* Ctrl+C inside the while loop's try body: the closing message and break.
InterruptInTry ==
    /\ pc \in {"history_get", "poll_get", "print", "confirm", "post", "sleep5", "sleep10"}
    /\ InterruptCaught(pc, phase)
    /\ pc' = "done"
    /\ msg' = "Exiting follow mode."
    /\ exc' = [type |-> "KeyboardInterrupt", phase |-> phase]
    /\ UNCHANGED <<feed, fatal, fetch, last_create_time, call, result, response, events,
                   phase, seen_activity_names,
                   batch, idx, stat, slept, invocations, appended_in_poll>>

\* Ctrl+C in the history block ('except Exception' does not match it) or in
\* the except clause's time.sleep(10): the exception leaves the function.
InterruptEscapes ==
    /\ pc \in {"history_get", "poll_get", "print", "confirm", "post", "sleep5", "sleep10"}
    /\ ~InterruptCaught(pc, phase)
    /\ pc' = "raised"
    /\ exc' = [type |-> "KeyboardInterrupt", phase |-> phase]
    /\ UNCHANGED <<feed, fatal, fetch, last_create_time, call, result, response, events,
                   phase, seen_activity_names,
                   batch, idx, stat, msg, slept, invocations, appended_in_poll>>

Next ==
    \/ ServerAppend
    \/ Invoke
    \/ HistoryGetFails
    \/ HistoryGetReturns
    \/ PollGetFails
    \/ PollGetReturns
    \/ PrintRaise
    \/ PrintContent
    \/ ConfirmYes
    \/ ConfirmNo
    \/ CommitPosted
    \/ CommitFails
    \/ Sleep5
    \/ Sleep10
    \/ InterruptInTry
    \/ InterruptEscapes

Spec == Init /\ [][Next]_vars

\* ------------------------------------------------------------------------
\* The follow loop when nothing goes wrong: the server is up, every payload
\* is well formed, no request fails and nobody interrupts. The client's
\* steps are weakly fair: a fetch, a print, an answered prompt and a sleep
\* each complete.
GoodServerAppend == AppendWith(GoodPayloads)

ClientStep ==
    \/ Invoke
    \/ HistoryGetReturns
    \/ PollGetReturns
    \/ PrintContent
    \/ ConfirmYes
    \/ ConfirmNo
    \/ CommitPosted
    \/ Sleep5

LiveInit == Init /\ ~fatal

LiveNext == GoodServerAppend \/ ClientStep

LiveSpec == LiveInit /\ [][LiveNext]_vars /\ WF_vars(ClientStep)

\* ------------------------------------------------------------------------
\* print_activity and truncate_output called directly, as the tests call
\* them: the arguments are drawn from bounded sets, the answer to a
\* confirmation and the fate of a POST are arguments too.

\* ------------------------------------------------ the header of print_activity
LowerCase == <<"a", "b", "c", "d", "e", "f", "g", "h", "i", "j", "k", "l", "m",
               "n", "o", "p", "q", "r", "s", "t", "u", "v", "w", "x", "y", "z">>

UpperCase == <<"A", "B", "C", "D", "E", "F", "G", "H", "I", "J", "K", "L", "M",
               "N", "O", "P", "Q", "R", "S", "T", "U", "V", "W", "X", "Y", "Z">>

\* str.upper()
upper(s) ==
    [i \in 1..Len(s) |->
        IF \E k \in 1..Len(LowerCase) : LowerCase[k] = s[i]
        THEN UpperCase[CHOOSE k \in 1..Len(LowerCase) : LowerCase[k] = s[i]]
        ELSE s[i]]

\* c in s
Contains(s, c) == \E i \in 1..Len(s) : s[i] = c

\* s.find(c), from 1
Find(s, c) == CHOOSE i \in 1..Len(s) : s[i] = c /\ \A j \in 1..(i - 1) : s[j] # c

\* s.split(c): the pieces between the occurrences of c.
RECURSIVE split(_, _)
split(s, c) ==
    IF ~Contains(s, c) THEN <<s>>
    ELSE <<SubSeq(s, 1, Find(s, c) - 1)>> \o split(SubSeq(s, Find(s, c) + 1, Len(s)), c)

\* create_time.split('T')[1].split('.')[0] if 'T' in create_time else create_time
time_str(create_time) ==
    IF Contains(create_time, "T")
    THEN split(split(create_time, "T")[2], ".")[1]
    ELSE create_time

DefaultOriginator == <<"U", "N", "K", "N", "O", "W", "N">>

DefaultCreateTime == <<"-", "-", "-", "-", "-", "-", "-", "-", "-", "-", "-", "-">>

\* activity.get(key, default)
Get(d, key, default) == IF key \in DOMAIN d THEN d[key] ELSE default

\* The header line: [{time_str} - {originator.upper()}]
Header(activity) ==
    [time_str |-> time_str(Get(activity, "createTime", DefaultCreateTime)),
     originator |-> upper(Get(activity, "originator", DefaultOriginator))]

\* print_activity(activity, client) as one call: what it printed, asked and
\* posted. answer is what ask() returns, post_raises whether client.post does.
print_activity(activity, client, answer, post_raises) ==
    LET asked == IF ~PrintRaises(activity) /\ Prompt(activity, client) # NoPrompt
                 THEN <<Prompt(activity, client)>> ELSE <<>>
        posted == IF asked # <<>> /\ answer
                  THEN <<CommitEndpoint(session_name(activity.name))>> ELSE <<>>
    IN  [raised |-> IF PrintRaises(activity) THEN "AttributeError" ELSE "none",
         header |-> Header(activity),
         bodies |-> <<Kind(activity)>>,
         asked |-> asked,
         posted |-> posted,
         report |-> IF posted = <<>> THEN "(none)"
                    ELSE IF post_raises THEN "Failed to create commit"
                    ELSE "Commit and Pull Request created successfully!"]

\* --------------------------------------------------------- truncate_output
\* A Python string is the sequence of its lines, str.split('\n'): never
\* empty, '' is <<"">>.

\* '\n'.join(lines)
join(lines) == IF lines = <<>> THEN <<"">> ELSE lines

\* s + t: the last line of s and the first of t become one line.
Plus(s, t) == SubSeq(s, 1, Len(s) - 1) \o <<s[Len(s)] \o t[1]>> \o Tail(t)

\* lines[:head]
First(lines, head) == SubSeq(lines, 1, Min(head, Len(lines)))

\* lines[-tail:] -- lines[-0:] is lines[0:], the whole list.
Last(lines, tail) ==
    IF tail = 0 THEN lines
    ELSE SubSeq(lines, Len(lines) - Min(tail, Len(lines)) + 1, Len(lines))

\* The line between the head and the tail.
Marker(head, tail) ==
    "... (output truncated, showing first " \o ToString(head)
        \o " and last " \o ToString(tail) \o " lines) ..."

\* f"\n... (output truncated, showing first {head} and last {tail} lines) ...\n"
truncated_message(head, tail) == <<"", Marker(head, tail), "">>

truncate_output(output, max_lines, head, tail) ==
    LET lines == output
    IN  IF Len(lines) > max_lines
        THEN Plus(Plus(join(First(lines, head)), truncated_message(head, tail)),
                  join(Last(lines, tail)))
        ELSE output

\* def truncate_output(output, max_lines=25, head=10, tail=10)
DefaultMaxLines == 25
DefaultHead == 10
DefaultTail == 10

\* Defaults whose head and tail together exceed max_lines.
DefaultsShowingMore ==
    [max_lines |-> DefaultMaxLines, head |-> DefaultHead + DefaultTail, tail |-> DefaultTail]

Defaults == [max_lines |-> DefaultMaxLines, head |-> DefaultHead, tail |-> DefaultTail]

\* truncate_output(output, **kwargs): an unexpected keyword is a TypeError.
CallTruncate(output, kwargs) ==
    IF DOMAIN kwargs \subseteq DOMAIN Defaults
    THEN [raised |-> "none",
          value |-> truncate_output(output,
                                    Get(kwargs, "max_lines", Defaults.max_lines),
                                    Get(kwargs, "head", Defaults.head),
                                    Get(kwargs, "tail", Defaults.tail))]
    ELSE [raised |-> "TypeError", value |-> <<>>]

\* ------------------------------------------------------------ the arguments
\* The longest createTime tried, apart from the timestamp of the tests.
MaxTimeLen == 4
\* The longest output tried with every max_lines, head and tail up to MaxArg.
MaxOutputLines == 4
MaxArg == 3

\* '2024-01-01T10:00:00.000Z'
IsoCreateTime ==
    <<"2", "0", "2", "4", "-", "0", "1", "-", "0", "1", "T",
      "1", "0", ":", "0", "0", ":", "0", "0", ".", "0", "0", "0", "Z">>

CreateTimes ==
    {IsoCreateTime} \cup UNION {[1..n -> {"T", ".", "1"}] : n \in 0..MaxTimeLen}

Originators == {<<"a", "g", "e", "n", "t">>, <<"U", "s", "e", "r">>}

\* The header fields an activity may carry: each may be missing.
Headers ==
    {EmptyDict}
        \cup {[createTime |-> t] : t \in CreateTimes}
        \cup {[originator |-> o] : o \in Originators}
        \cup {[createTime |-> t, originator |-> o] : t \in CreateTimes, o \in Originators}

IsoHeader == [createTime |-> IsoCreateTime, originator |-> <<"a", "g", "e", "n", "t">>]

KindFields == {"message", "planGenerated", "progressUpdated", "planApproved", "sessionCompleted"}

PlanBodies ==
    {[plan |-> [reasoning |-> "A plan.", state |-> st, steps |-> <<[title |-> "Do something"]>>]] :
        st \in {"NEEDS_APPROVAL", "APPROVED"}}
        \cup {[plan |-> [reasoning |-> "A plan.", steps |-> <<[title |-> "Do something"]>>]]}

CompletedBodies ==
    {EmptyDict,
     [commitInfo |-> EmptyDict],
     [commitInfo |-> [suggestedCommitMessage |-> <<"">>]],
     [commitInfo |-> [suggestedCommitMessage |-> <<"feat: Implement new feature">>]]}

\* An activity with the kind fields fs.
Activity(fs, plan, completed, header) ==
    [f \in fs |->
        CASE f = "message" -> [content |-> "hi"]
          [] f = "planGenerated" -> plan
          [] f = "progressUpdated" -> [title |-> "Working"]
          [] f = "planApproved" -> EmptyDict
          [] f = "sessionCompleted" -> completed]
    @@ header @@ ("name" :> Name(1))

Activities ==
    {Activity(fs, plan, completed, IsoHeader) :
        fs \in SUBSET KindFields, plan \in PlanBodies, completed \in CompletedBodies}
    \cup {Activity({"message"}, CHOOSE plan \in PlanBodies : TRUE, EmptyDict, h) : h \in Headers}
    \cup {EmptyDict}

PrintCalls ==
    {[fn |-> "print_activity", activity |-> a, client |-> c, answer |-> y, post_raises |-> r] :
        a \in Activities, c \in BOOLEAN, y \in BOOLEAN, r \in BOOLEAN}

\* "Line 0\nLine 1\n...": n lines.
Numbered(n) == [i \in 1..n |-> "Line " \o ToString(i - 1)]

\* The line counts the tests try with the default arguments.
TestedLineCounts == {DefaultMaxLines, DefaultMaxLines + 1, DefaultMaxLines + 15}

Outputs == {Numbered(n) : n \in 1..MaxOutputLines} \cup {<<"">>, <<"", "">>}

\* The keywords jcat.py's signature has, and the ones test_jcat.py passes.
Keywords ==
    {[max_lines |-> m, head |-> h, tail |-> t] : m, h, t \in 0..MaxArg}
        \cup {[max_lines |-> DefaultMaxLines, head_lines |-> DefaultHead,
               tail_lines |-> DefaultTail],
              [max_line_length |-> 150]}
        \cup {[max_line_length |-> l] : l \in 1..MaxArg}

TruncateCalls ==
    {[fn |-> "truncate_output", output |-> o, kwargs |-> k] :
        o \in Outputs, k \in Keywords \cup {EmptyDict}}
        \cup {[fn |-> "truncate_output", output |-> Numbered(n), kwargs |-> k] :
                n \in TestedLineCounts,
                k \in {EmptyDict,
                       [max_lines |-> DefaultMaxLines, head_lines |-> DefaultHead,
                        tail_lines |-> DefaultTail],
                       [max_line_length |-> 150]}}

\* -------------------------------------------------------------------- main
\* An optional string (os.environ.get, dict.get) is a set: {} is None, {s}
\* the string s.

\* 'not v' of an optional string that may also be unset
FalsyOnlyWhenNone(v) == v = {}

\* 'not v': None and '' are falsy.
Falsy(v) == v \in {{}, {""}}

\* d.get(key)
GetOptional(d, key) == IF key \in DOMAIN d THEN {d[key]} ELSE {}

MissingKeyMessage ==
    "API key is missing. Please set it via the JCAT_API_KEY environment variable or by using 'jcat config set api_key YOUR_KEY'"

\* ApiClient(api_key=api_key)
ApiClient(api_key) ==
    IF Falsy(api_key) THEN [raised |-> "ValueError", message |-> MissingKeyMessage]
    ELSE [raised |-> "none", api_key |-> api_key]

\* The config file: absent, a JSON object, or text json.load rejects.
NoConfigFile == [exists |-> FALSE, valid |-> TRUE, content |-> EmptyDict]
ConfigFile(content) == [exists |-> TRUE, valid |-> TRUE, content |-> content]
MalformedConfigFile == [exists |-> TRUE, valid |-> FALSE, content |-> EmptyDict]

load_config(file) ==
    IF ~file.exists THEN [raised |-> "none", value |-> EmptyDict]
    ELSE IF ~file.valid
    THEN [raised |-> "JSONDecodeError", message |-> "Expecting value: line 1 column 1 (char 0)"]
    ELSE [raised |-> "none", value |-> file.content]

\* What set_defaults(func=...) binds to each command the parser accepts;
\* "(none)" is no command at all.
Commands ==
    {"(none)", "config set", "sources list", "session list", "session new", "session follow",
     "session message", "session interactive", "session commit"}

Handler(command) ==
    CASE command = "config set" -> "handle_config_set"
      [] command = "sources list" -> "handle_sources_list"
      [] command = "session list" -> "handle_session_list"
      [] command = "session new" -> "handle_session_new"
      [] command = "session follow" -> "handle_session_follow"
      [] command = "session message" -> "handle_session_message"
      [] command \in {"session interactive", "(none)"} -> "handle_session_interactive"
      [] command = "session commit" -> "handle_session_commit"

HandlerError == "handler failed"

\* print(f"An error occurred: {e}")
ErrorLine(message) == "An error occurred: " \o message

\* main() after parse_args: the handlers it called, each with the API key of
\* the client it was given ({} for none), the clients it built, what it
\* printed itself. handler_raises: the handler raises an Exception.
main(command, environ, file, handler_raises) ==
    LET handled(api_key) ==
            [raised |-> "none",
             handled |-> <<[handler |-> Handler(command), api_key |-> api_key]>>,
             clients |-> IF api_key = {} THEN <<>> ELSE <<api_key>>,
             printed |-> IF handler_raises THEN <<ErrorLine(HandlerError)>> ELSE <<>>]
        failed(message) ==
            [raised |-> "none", handled |-> <<>>, clients |-> <<>>,
             printed |-> <<ErrorLine(message)>>]
        env_key == GetOptional(environ, "JCAT_API_KEY")
        config == load_config(file)
    IN  IF command = "config set" THEN handled({})
        ELSE IF Falsy(env_key) /\ config.raised # "none" THEN failed(config.message)
        ELSE LET api_key == IF Falsy(env_key) THEN GetOptional(config.value, "api_key")
                            ELSE env_key
                 client == ApiClient(api_key)
             IN  IF client.raised # "none" THEN failed(client.message)
                 ELSE handled(client.api_key)

Environments == {EmptyDict, [JCAT_API_KEY |-> ""], [JCAT_API_KEY |-> "env-key"]}

ConfigFiles ==
    {NoConfigFile, MalformedConfigFile, ConfigFile(EmptyDict), ConfigFile([api_key |-> ""]),
     ConfigFile([api_key |-> "file-key"])}

MainCalls ==
    {[fn |-> "main", command |-> c, environ |-> e, file |-> f, handler_raises |-> r] :
        c \in Commands, e \in Environments, f \in ConfigFiles, r \in BOOLEAN}

\* ------------------------------------------------- handle_session_message
\* A call is the trace of what it did in order: lines printed, requests sent.
Printed(line) == [op |-> "print", line |-> line]
Posted(endpoint, data) == [op |-> "post", endpoint |-> endpoint, data |-> data]

\* The success line printed whether or not the POST came back.
handle_session_messageOptimistic(args_session_id, prompt, post_raises) ==
    [raised |-> IF post_raises THEN "RequestException" ELSE "none",
     trace |-> <<Printed("Sending message to session: " \o args_session_id \o "..."),
                 Posted(args_session_id \o ":sendMessage", [prompt |-> prompt]),
                 Printed("Message sent successfully.")>>]

\* handle_session_message(client, args); post_raises: client.post raises.
handle_session_message(args_session_id, prompt, post_raises) ==
    LET sent == <<Printed("Sending message to session: " \o args_session_id \o "..."),
                  Posted(args_session_id \o ":sendMessage", [prompt |-> prompt])>>
    IN  IF post_raises THEN [raised |-> "RequestException", trace |-> sent]
        ELSE [raised |-> "none",
              trace |-> Append(sent, Printed("Message sent successfully."))]

SessionIds == {"sessions/s1", "sessions/s2"}
Prompts == {"", "hi", "please add tests"}

MessageCalls ==
    {[fn |-> "handle_session_message", session_id |-> i, prompt |-> p, post_raises |-> r] :
        i \in SessionIds, p \in Prompts, r \in BOOLEAN}

\* --------------------------------------------- handle_session_interactive
\* The answers of the prompts are optional strings: ask() gives None when the
\* prompt is cancelled.

\* An empty message sent like any other.
handle_session_interactiveSendingEmpty(sessions_data, get_raises, selected_session_id, action, message_prompt, follow_raises, post_raises) ==
    LET fetching == <<Printed("Fetching recent sessions...")>>
        sessions == Get(sessions_data, "sessions", <<>>)
        calling(handler, prompt, raised) ==
            [raised |-> IF raised = "KeyboardInterrupt" THEN "none" ELSE raised,
             trace |-> IF raised = "KeyboardInterrupt"
                       THEN Append(fetching, Printed("\nOperation cancelled by user."))
                       ELSE fetching,
             handled |-> <<[handler |-> handler, session_id |-> selected_session_id,
                            prompt |-> prompt]>>]
    IN  IF get_raises
        THEN [raised |-> "RequestException", trace |-> fetching, handled |-> <<>>]
        ELSE IF sessions = <<>>
        THEN [raised |-> "none", trace |-> Append(fetching, Printed("No sessions found.")),
              handled |-> <<>>]
        ELSE IF \E i \in 1..Len(sessions) : "name" \notin DOMAIN sessions[i]
        THEN [raised |-> "KeyError", trace |-> fetching, handled |-> <<>>]
        ELSE IF Falsy(selected_session_id)
        THEN [raised |-> "none", trace |-> fetching, handled |-> <<>>]
        ELSE IF action = {"Follow"}
        THEN calling("handle_session_follow", {}, follow_raises)
        ELSE IF action = {"Send Message"}
        THEN IF message_prompt # {}
             THEN calling("handle_session_message", message_prompt,
                          IF post_raises THEN "RequestException" ELSE "none")
             ELSE [raised |-> "none", trace |-> fetching, handled |-> <<>>]
        ELSE [raised |-> "none", trace |-> Append(fetching, Printed("Operation cancelled.")),
              handled |-> <<>>]

\* handle_session_interactive(client, args): the handlers it called, each
\* with the session_id and prompt of its Namespace. follow_raises: how
\* handle_session_follow ends ("none": it returns); post_raises: the POST of
\* handle_session_message raises.
handle_session_interactive(sessions_data, get_raises, selected_session_id, action, message_prompt, follow_raises, post_raises) ==
    LET fetching == <<Printed("Fetching recent sessions...")>>
        sessions == Get(sessions_data, "sessions", <<>>)
        calling(handler, prompt, raised) ==
            [raised |-> IF raised = "KeyboardInterrupt" THEN "none" ELSE raised,
             trace |-> IF raised = "KeyboardInterrupt"
                       THEN Append(fetching, Printed("\nOperation cancelled by user."))
                       ELSE fetching,
             handled |-> <<[handler |-> handler, session_id |-> selected_session_id,
                            prompt |-> prompt]>>]
    IN  IF get_raises
        THEN [raised |-> "RequestException", trace |-> fetching, handled |-> <<>>]
        ELSE IF sessions = <<>>
        THEN [raised |-> "none", trace |-> Append(fetching, Printed("No sessions found.")),
              handled |-> <<>>]
        ELSE IF \E i \in 1..Len(sessions) : "name" \notin DOMAIN sessions[i]
        THEN [raised |-> "KeyError", trace |-> fetching, handled |-> <<>>]
        ELSE IF Falsy(selected_session_id)
        THEN [raised |-> "none", trace |-> fetching, handled |-> <<>>]
        ELSE IF action = {"Follow"}
        THEN calling("handle_session_follow", {}, follow_raises)
        ELSE IF action = {"Send Message"}
        THEN IF ~Falsy(message_prompt)
             THEN calling("handle_session_message", message_prompt,
                          IF post_raises THEN "RequestException" ELSE "none")
             ELSE [raised |-> "none", trace |-> fetching, handled |-> <<>>]
        ELSE [raised |-> "none", trace |-> Append(fetching, Printed("Operation cancelled.")),
              handled |-> <<>>]

SessionLists ==
    {EmptyDict, [sessions |-> <<>>],
     [sessions |-> <<[name |-> "sessions/s1", title |-> "Fix the build"]>>],
     [sessions |-> <<[name |-> "sessions/s1"], [name |-> "sessions/s2", title |-> "Docs"]>>],
     [sessions |-> <<[title |-> "Nameless"]>>]}

\* What select() can return for the choices built from the sessions.
Selectable(sessions_data) ==
    {{}} \cup {{sessions_data.sessions[i].name} :
                i \in {j \in 1..Len(Get(sessions_data, "sessions", <<>>)) :
                        "name" \in DOMAIN sessions_data.sessions[j]}}

Actions == {{}, {"Follow"}, {"Send Message"}, {"Cancel"}}

InteractiveCalls ==
    {[fn |-> "handle_session_interactive", sessions_data |-> d, get_raises |-> g,
      selected_session_id |-> s, action |-> a, message_prompt |-> m,
      follow_raises |-> f, post_raises |-> r] :
        d \in SessionLists, g \in BOOLEAN, s \in {{}, {"sessions/s1"}, {"sessions/s2"}},
        a \in Actions, m \in {{}, {""}, {"hi"}},
        f \in {"none", "KeyboardInterrupt"}, r \in BOOLEAN}

CallInit ==
    /\ feed = <<>>
    /\ fatal = FALSE
    /\ pc = "idle"
    /\ phase = "history"
    /\ seen_activity_names = {}
    /\ batch = <<>>
    /\ idx = 0
    /\ stat = [n \in Names |-> ZeroStat]
    /\ msg = ""
    /\ slept = 0
    /\ exc = NoExc
    /\ invocations = 0
    /\ appended_in_poll = {}
    /\ response = <<>>
    /\ events = <<>>
    /\ fetch = NoFetch
    /\ last_create_time = <<>>
    /\ call \in PrintCalls \cup TruncateCalls \cup MainCalls \cup MessageCalls
                \cup {c \in InteractiveCalls :
                        c.selected_session_id \in Selectable(c.sessions_data)}
    /\ result = NoResult

\* print_activity(activity, client) runs.
CallPrintActivity ==
    /\ call.fn = "print_activity"
    /\ result = NoResult
    /\ result' = print_activity(call.activity, call.client, call.answer, call.post_raises)
    /\ UNCHANGED <<feed, fatal, fetch, last_create_time, pc, phase, seen_activity_names,
                   batch, idx, stat, msg, slept,
                   exc, invocations, appended_in_poll, response, events, call>>

\* truncate_output(output, **kwargs) runs.
CallTruncateOutput ==
    /\ call.fn = "truncate_output"
    /\ result = NoResult
    /\ result' = CallTruncate(call.output, call.kwargs)
    /\ UNCHANGED <<feed, fatal, fetch, last_create_time, pc, phase, seen_activity_names,
                   batch, idx, stat, msg, slept,
                   exc, invocations, appended_in_poll, response, events, call>>

\* main() runs on a parsed command line.
CallMain ==
    /\ call.fn = "main"
    /\ result = NoResult
    /\ result' = main(call.command, call.environ, call.file, call.handler_raises)
    /\ UNCHANGED <<feed, fatal, fetch, last_create_time, pc, phase, seen_activity_names,
                   batch, idx, stat, msg, slept,
                   exc, invocations, appended_in_poll, response, events, call>>

\* handle_session_message(client, args) runs.
CallMessage ==
    /\ call.fn = "handle_session_message"
    /\ result = NoResult
    /\ result' = handle_session_message(call.session_id, call.prompt, call.post_raises)
    /\ UNCHANGED <<feed, fatal, fetch, last_create_time, pc, phase, seen_activity_names,
                   batch, idx, stat, msg, slept,
                   exc, invocations, appended_in_poll, response, events, call>>

\* handle_session_interactive(client, args) runs.
CallInteractive ==
    /\ call.fn = "handle_session_interactive"
    /\ result = NoResult
    /\ result' = handle_session_interactive(call.sessions_data, call.get_raises,
                    call.selected_session_id, call.action, call.message_prompt,
                    call.follow_raises, call.post_raises)
    /\ UNCHANGED <<feed, fatal, fetch, last_create_time, pc, phase, seen_activity_names,
                   batch, idx, stat, msg, slept,
                   exc, invocations, appended_in_poll, response, events, call>>

CallNext ==
    \/ CallPrintActivity
    \/ CallTruncateOutput
    \/ CallMain
    \/ CallMessage
    \/ CallInteractive

CallSpec == CallInit /\ [][CallNext]_vars

\* ------------------------------------------------------------------------
\* The claims.

Exceptions == {"RequestException", "KeyError", "AttributeError"}

InPrintActivity == pc \in {"print", "confirm", "post"}

\* C1: an activity whose name is in seen_activity_names is never rendered
\* again: print_activity only ever runs on an activity whose name is not in
\* the set, and a name in the set was rendered exactly once in this
\* invocation, however often the server returned it.
C1_SeenNeverRenderedAgain ==
    /\ InPrintActivity => batch[idx].name \notin seen_activity_names
    /\ \A n \in seen_activity_names : stat[n].started = 1 /\ stat[n].completed = 1

\* Two fetches returned the same activity and it was rendered once.
C1_Witness ==
    \E n \in seen_activity_names :
        stat[n].returned >= 2 /\ stat[n].started = 1 /\ pc = "sleep5"

\* C2: every activity appended while the poll loop runs is eventually
\* rendered (the server up, fetches succeeding, the loop running).
C2_EveryAppendedRendered ==
    \A n \in Names : (n \in appended_in_poll) ~> (stat[n].completed >= 1)

\* C3: seen_activity_names is empty when an invocation starts and no step
\* of the invocation removes a name.
C3_SeenOnlyGrows ==
    [][IF pc \in {"idle", "done", "raised"} /\ pc' = "history_get"
       THEN seen_activity_names' = {}
       ELSE seen_activity_names \subseteq seen_activity_names']_vars

\* A second invocation is polling and has two names again.
C3_Witness ==
    invocations >= 2 /\ phase = "poll" /\ Cardinality(seen_activity_names) >= 2

\* C4: a name is in seen_activity_names only after print_activity returned
\* normally for it; an activity whose rendering raised is not in the set.
C4_SeenOnlyAfterFullRender ==
    \A n \in Names :
        /\ n \in seen_activity_names
            => /\ stat[n].printed >= 1
               /\ stat[n].completed >= 1
               /\ stat[n].accepted >= 1 => stat[n].posted >= 1
        /\ stat[n].completed = 0 => n \notin seen_activity_names

\* An activity was rendered part-way twice and is still not marked seen.
C4_Witness ==
    \E n \in Names :
        /\ stat[n].started >= 2
        /\ stat[n].completed = 0
        /\ n \notin seen_activity_names
        /\ exc.type = "AttributeError"

\* C5: a KeyboardInterrupt at any point of the invocation ends it with the
\* closing message and no exception leaves handle_session_follow.
C5_InterruptExitsCleanly ==
    exc.type = "KeyboardInterrupt" => pc = "done" /\ msg = "Exiting follow mode."

\* C6: an Exception raised in a poll iteration is reported and followed by
\* the 10-unit sleep and then another poll attempt; it never ends the loop,
\* and a failed fetch leaves seen_activity_names as it was.
C6_PollErrorBacksOffAndRetries ==
    /\ [](exc.type \in Exceptions /\ exc.phase = "poll"
            => pc = "sleep10" /\ msg = "An error occurred")
    /\ [][/\ pc = "sleep10" /\ pc' # "sleep10"
                => \/ pc' = "poll_get" /\ slept' = ErrorBackoff
                   \/ exc'.type = "KeyboardInterrupt"
          /\ exc'.type = "RequestException" /\ exc' # exc
                => seen_activity_names' = seen_activity_names]_vars

\* A render failed in a poll after other activities had been seen.
C6_Witness ==
    /\ pc = "sleep10"
    /\ exc = [type |-> "AttributeError", phase |-> "poll"]
    /\ seen_activity_names # {}

\* C7: a failure that repeats on every retry (the server rejects every
\* request) propagates out of the poll loop.
C7_FatalPropagates ==
    fatal /\ exc.type = "RequestException" /\ exc.phase = "poll" => pc = "raised"

\* C8: a failed commit POST is reported, raises nothing into the follow
\* loop, ends a poll iteration with the 5-unit sleep, leaves the activity
\* marked seen and is not attempted again.
C8_FailedActionIsReportedOnce ==
    /\ [](\A n \in Names :
            stat[n].failed >= 1
                => /\ n \in seen_activity_names
                   /\ stat[n].posted = 1
                   /\ stat[n].started = 1)
    /\ [][\A n \in Names :
            stat'[n].failed > stat[n].failed
                => /\ events'[Len(events')] = "failed"
                   /\ msg' \in {"Failed to create commit", "Waiting for new activities..."}
                   /\ exc' = NoExc
                   /\ n \in seen_activity_names'
                   /\ phase = "poll" => pc' = "sleep5"]_vars

\* The activity whose commit failed was returned again and left alone.
C8_Witness ==
    \E n \in seen_activity_names :
        /\ stat[n].failed = 1
        /\ stat[n].posted = 1
        /\ stat[n].returned >= 2
        /\ pc = "sleep5"

\* The plan of a planGenerated activity awaits approval.
NeedsApproval(activity) ==
    /\ Kind(activity) = "planGenerated"
    /\ IsMapping(activity.planGenerated)
    /\ "plan" \in DOMAIN activity.planGenerated
    /\ "state" \in DOMAIN activity.planGenerated.plan
    /\ activity.planGenerated.plan.state = "NEEDS_APPROVAL"

ApprovePrompt == "This plan requires your approval. Do you want to approve it?"

\* C9: rendering, with a client, a planGenerated activity whose plan needs
\* approval asks ApprovePrompt exactly once and, on yes, invokes the
\* approve-plan action once with the session of the activity name.
C9_PlanApprovalPrompted ==
    \A i \in 1..Len(feed) :
        NeedsApproval(feed[i]) /\ stat[feed[i].name].completed >= 1
            => /\ stat[feed[i].name].asked = 1
               /\ stat[feed[i].name].prompt = ApprovePrompt
               /\ stat[feed[i].name].accepted >= 1
                    => /\ stat[feed[i].name].posted = 1
                       /\ stat[feed[i].name].endpoint =
                            [session |-> session_name(feed[i].name), verb |-> "approvePlan"]

TestedCommitPrompt == "Create this commit and open a Pull Request?"

\* C10: rendering, with a client, a sessionCompleted activity with a
\* suggested commit message asks exactly TestedCommitPrompt, once, and on
\* yes posts once to '{session}:commit', the session being the activity
\* name without its '/activities/<id>' suffix.
C10_CommitPrompted ==
    \A i \in 1..Len(feed) :
        HasCommitInfo(feed[i]) /\ stat[feed[i].name].completed >= 1
            => /\ stat[feed[i].name].asked = 1
               /\ stat[feed[i].name].prompt = TestedCommitPrompt
               /\ stat[feed[i].name].accepted >= 1
                    => /\ stat[feed[i].name].posted = 1
                       /\ stat[feed[i].name].endpoint =
                            [session |-> <<"sessions", "123">>, verb |-> "commit"]

\* The suggested commit message is there and is not the empty string.
HasNonEmptyCommitMessage(activity) ==
    /\ HasCommitInfo(activity)
    /\ activity.sessionCompleted.commitInfo.suggestedCommitMessage # <<"">>

\* C11: print_activity asks nothing for a planGenerated activity whose plan
\* state is not NEEDS_APPROVAL, and (given a client) asks for the commit of
\* a sessionCompleted activity exactly when commitInfo.suggestedCommitMessage
\* is present and non-empty.
C11_PromptsOnlyWhenActionable ==
    call.fn = "print_activity" /\ result # NoResult
        => /\ Kind(call.activity) = "planGenerated" /\ ~NeedsApproval(call.activity)
                => result.asked = <<>>
           /\ Kind(call.activity) = "sessionCompleted" /\ call.client
                => (result.asked # <<>> <=> HasNonEmptyCommitMessage(call.activity))

\* C12: in the follow loop every POST comes after the content of its
\* activity was printed, the confirmation for that activity was asked and
\* the answer was yes, in that order; nothing is posted without both, and
\* the confirmation is never asked before the content is printed.
C12_PostOnlyAfterContentAndYes ==
    /\ [](\A k \in 1..Len(events) :
            /\ events[k] = "ask" => \E i \in 1..(k - 1) : events[i] = "content"
            /\ events[k] = "post"
                => \E i, j, l \in 1..(k - 1) :
                    /\ i < j /\ j < l
                    /\ events[i] = "content" /\ events[j] = "ask" /\ events[l] = "yes")
    /\ [](\A n \in Names :
            stat[n].posted >= 1
                => stat[n].printed >= 1 /\ stat[n].asked >= 1 /\ stat[n].accepted >= 1)
    /\ [][\A n \in Names :
            stat'[n].posted > stat[n].posted
                => /\ pc = "post" /\ batch[idx].name = n
                   /\ events # <<>> /\ events[Len(events)] = "yes"
                   /\ SubSeq(events', 1, Len(events) + 1) = Append(events, "post")]_vars

\* A commit was posted in a poll iteration, after content, question and yes.
C12_Witness ==
    /\ events = <<"content", "ask", "yes", "post", "created">>
    /\ phase = "poll"
    /\ \E n \in seen_activity_names : stat[n].posted = 1 /\ stat[n].failed = 0

\* C13: when the user declines the confirmation, nothing is posted for the
\* activity, its name is added to seen_activity_names all the same, it is
\* not asked about again, and the poll iteration ends like any other: the
\* 5-unit sleep and then the next poll.
C13_DeclineSkipsPostAndGoesOn ==
    /\ [](\A n \in seen_activity_names :
            stat[n].asked >= 1 /\ stat[n].accepted = 0
                => stat[n].posted = 0 /\ stat[n].asked = 1 /\ stat[n].started = 1)
    /\ [][pc = "confirm" /\ events' = Append(events, "no")
            => /\ stat'[batch[idx].name].posted = 0
               /\ batch[idx].name \in seen_activity_names'
               /\ exc' = NoExc
               /\ phase = "poll" /\ idx = Len(batch) => pc' = "sleep5"]_vars
    /\ [][pc = "sleep5" /\ pc' # "sleep5"
            => \/ pc' = "poll_get" /\ slept' = PollInterval
               \/ exc'.type = "KeyboardInterrupt"]_vars

\* An activity appended during polling was declined, the loop slept 5 and
\* polled it again without asking again.
C13_Witness ==
    \E n \in seen_activity_names \cap appended_in_poll :
        /\ stat[n].asked = 1
        /\ stat[n].accepted = 0
        /\ stat[n].posted = 0
        /\ stat[n].returned >= 2
        /\ events = <<"content", "ask", "no">>
        /\ slept = PollInterval
        /\ pc = "sleep5"

\* Where the activity called name is in list.
Position(list, name) == CHOOSE i \in 1..Len(list) : list[i].name = name

\* C14: the batch the for loop renders is the fetched response in ascending
\* createTime order, whatever order the server returned it in; activities
\* with equal createTime keep the order of the response; and within a batch
\* print_activity is called in batch order.
C14_BatchAscendingAndStable ==
    /\ [](~SortRaises(response)
            => /\ Len(batch) = Len(response)
               /\ \A i \in 1..Len(batch) : \E j \in 1..Len(response) : response[j] = batch[i]
               /\ \A i, j \in 1..Len(batch) :
                    i < j => /\ ~StrLess(batch[j].createTime, batch[i].createTime)
                             /\ batch[i].createTime = batch[j].createTime
                                  => Position(response, batch[i].name)
                                        < Position(response, batch[j].name))
    /\ [][pc' = "print" /\ pc \in {"print", "confirm", "post"} /\ idx' # idx
            => batch' = batch /\ idx' > idx]_vars

\* The server returned two activities of equal createTime, the newer first,
\* and both were rendered, in the order of the response.
C14_Witness ==
    /\ Len(response) = 2
    /\ ~SortRaises(response)
    /\ response[1].name = Name(2)
    /\ response[1].createTime = response[2].createTime
    /\ batch = response
    /\ \A i \in 1..2 : stat[response[i].name].completed = 1

\* C15: an activity that lacks expected fields (createTime, originator,
\* nested sub-fields) never sends the follow loop down its error path: no
\* missing key raises, the batch is not skipped and the activity is
\* rendered with the defaults.
C15_MissingFieldsNeverRaise ==
    /\ exc.type # "KeyError"
    /\ \A i \in 1..Len(response) :
        "createTime" \notin DOMAIN response[i] /\ pc \in {"sleep5", "sleep10"}
            => stat[response[i].name].completed >= 1

\* The order in which the variants are looked for.
VariantOrder ==
    <<"message", "planGenerated", "progressUpdated", "planApproved", "sessionCompleted">>

\* The first field of VariantOrder the activity carries, "unknown" if none.
FirstPresent(activity) ==
    IF \E k \in 1..Len(VariantOrder) : VariantOrder[k] \in DOMAIN activity
    THEN VariantOrder[CHOOSE k \in 1..Len(VariantOrder) :
                        /\ VariantOrder[k] \in DOMAIN activity
                        /\ \A j \in 1..(k - 1) : VariantOrder[j] \notin DOMAIN activity]
    ELSE "unknown"

\* C16: print_activity renders exactly one body, that of the first field
\* present in the order message, planGenerated, progressUpdated,
\* planApproved, sessionCompleted (Unknown if none), also when the payload
\* carries several of them; the commit prompt and the POST of a
\* sessionCompleted field that is not the first present never happen.
C16_FirstPresentFieldWins ==
    call.fn = "print_activity" /\ result # NoResult
        => /\ result.bodies = <<FirstPresent(call.activity)>>
           /\ result.asked # <<>> \/ result.posted # <<>>
                => FirstPresent(call.activity) = "sessionCompleted"

\* An activity with a plan and a session completed with a commit message
\* was rendered as the plan, with a client and a yes ready: nothing asked.
C16_Witness ==
    /\ call.fn = "print_activity"
    /\ result # NoResult
    /\ call.client /\ call.answer
    /\ DOMAIN call.activity \cap KindFields = {"planGenerated", "sessionCompleted"}
    /\ call.activity.sessionCompleted =
            [commitInfo |-> [suggestedCommitMessage |-> <<"feat: Implement new feature">>]]
    /\ result.bodies = <<"planGenerated">>
    /\ result.asked = <<>>
    /\ result.posted = <<>>

\* The text after the first 'T' of create_time up to the first '.' that
\* follows it (all of it if none follows), create_time itself without a 'T'.
TimeOfDay(create_time) ==
    IF Contains(create_time, "T")
    THEN LET rest == SubSeq(create_time, Find(create_time, "T") + 1, Len(create_time))
         IN  IF Contains(rest, ".") THEN SubSeq(rest, 1, Find(rest, ".") - 1) ELSE rest
    ELSE create_time

\* C17: the header shows, for a createTime with a 'T', the text between the
\* first 'T' and the first '.' after it (the whole rest if there is no '.'),
\* otherwise the createTime as it is, and the originator upper-cased,
\* 'UNKNOWN' if missing; '2024-01-01T10:00:00.000Z' by 'agent' is shown as
\* '10:00:00' and 'AGENT'; no timestamp, missing or malformed, raises.
C17_HeaderTimeAndOriginator ==
    call.fn = "print_activity" /\ result # NoResult
        => /\ result.raised = "none"
           /\ "createTime" \in DOMAIN call.activity
                => result.header.time_str = TimeOfDay(call.activity.createTime)
           /\ "originator" \in DOMAIN call.activity
                => result.header.originator = upper(call.activity.originator)
           /\ "originator" \notin DOMAIN call.activity
                => result.header.originator = <<"U", "N", "K", "N", "O", "W", "N">>
           /\ "createTime" \in DOMAIN call.activity /\ call.activity.createTime = IsoCreateTime
                => result.header.time_str = <<"1", "0", ":", "0", "0", ":", "0", "0">>
           /\ "originator" \in DOMAIN call.activity
                /\ call.activity.originator = <<"a", "g", "e", "n", "t">>
                => result.header.originator = <<"A", "G", "E", "N", "T">>

\* The value truncate_output's parameter has in the call.
Arg(param) == Get(call.kwargs, param, Defaults[param])

\* C18: truncate_output returns its input unchanged when it has at most
\* max_lines lines, and head + 1 + tail lines when it has more; by default
\* 25 lines come back unchanged and 26 or 40 lines come back as 21.
C18_LineCount ==
    call.fn = "truncate_output" /\ result # NoResult /\ result.raised = "none"
        => /\ Len(call.output) <= Arg("max_lines") => result.value = call.output
           /\ Len(call.output) > Arg("max_lines")
                => Len(result.value) = Arg("head") + 1 + Arg("tail")

\* '... (output truncated, omitting K lines) ...'
OmittingMarker(k) == "... (output truncated, omitting " \o ToString(k) \o " lines) ..."

\* The parameter names of the tests.
TestedKeywords == {"max_lines", "head_lines", "tail_lines", "max_line_length"}

\* C19: truncate_output accepts the parameters max_lines, head_lines,
\* tail_lines and max_line_length by those names, and the line it puts
\* between head and tail is '... (output truncated, omitting K lines) ...'
\* with K the number of lines minus head minus tail (20 for 40 lines, 6 for
\* 26 by default).
C19_OmittingMarkerAndKeywords ==
    call.fn = "truncate_output" /\ result # NoResult
        => /\ DOMAIN call.kwargs \subseteq TestedKeywords => result.raised = "none"
           /\ /\ result.raised = "none"
              /\ Len(call.output) > Arg("max_lines")
              /\ Arg("head") + Arg("tail") <= Len(call.output)
                => \E i \in 1..Len(result.value) :
                    result.value[i] =
                        OmittingMarker(Len(call.output) - Arg("head") - Arg("tail"))

\* The last tail lines: none when tail is 0, all when there are fewer.
LastLines(lines, tail) ==
    SubSeq(lines, Len(lines) - Min(tail, Len(lines)) + 1, Len(lines))

\* C20: for an input of more than max_lines lines and any head >= 0 and
\* tail >= 0 (tail = 0 and head + tail above the line count included) the
\* result is the first head input lines, one marker line and the last tail
\* input lines, verbatim and in order, and nothing else.
C20_HeadMarkerTail ==
    /\ call.fn = "truncate_output" /\ result # NoResult /\ result.raised = "none"
    /\ Len(call.output) > Arg("max_lines")
    => LET h == First(call.output, Arg("head"))
           t == LastLines(call.output, Arg("tail"))
       IN  /\ Len(result.value) = Len(h) + 1 + Len(t)
           /\ SubSeq(result.value, 1, Len(h)) = h
           /\ SubSeq(result.value, Len(h) + 2, Len(result.value)) = t

LineTruncatedMarker == "...[LINE TRUNCATED]..."

\* line cut to at most n characters, the marker appended when it was cut.
Bounded(line, n) ==
    IF Len(line) > n THEN SubSeq(line, 1, n) \o LineTruncatedMarker ELSE line

\* C21: called with a max_line_length, truncate_output cuts every line
\* longer than that to max_line_length characters and appends
\* '...[LINE TRUNCATED]...' to it, whether or not the line count was
\* truncated, and leaves the lines within the bound as they are.
C21_LineLengthBound ==
    /\ call.fn = "truncate_output" /\ result # NoResult
    /\ DOMAIN call.kwargs = {"max_line_length"}
    => /\ result.raised = "none"
       /\ Len(call.output) <= DefaultMaxLines
            => result.value =
                [i \in 1..Len(call.output) |->
                    Bounded(call.output[i], call.kwargs.max_line_length)]

\* The step is a GET of the follow loop answered or failed (not a Ctrl+C).
Fetches(at) == pc = at /\ pc' \notin {at, "done", "raised"}

\* C22: one follow invocation makes exactly one history fetch, with page size
\* 10, before any poll; every later fetch is a poll with page size 1; a poll
\* fetch that follows another poll iteration comes after a sleep of 5 when
\* that iteration ended without error and after a sleep of 10 when it failed.
C22_OneHistoryFetchThenPaced ==
    [][/\ Fetches("history_get")
          => /\ fetch.history = 0 /\ fetch'.history = 1
             /\ fetch'.pageSize = HistoryPageSize
             /\ phase = "history"
       /\ Fetches("poll_get")
          => /\ fetch.history = 1 /\ fetch'.history = 1
             /\ fetch'.pageSize = PollPageSize
             /\ phase = "poll"
       /\ fetch' # fetch /\ fetch' # NoFetch
          => Fetches("history_get") \/ Fetches("poll_get")
       /\ pc' = "poll_get" /\ pc # "poll_get" /\ phase = "poll"
          => \/ pc = "sleep5" /\ exc = NoExc /\ slept' = PollInterval
             \/ pc = "sleep10" /\ exc.type \in Exceptions /\ exc.phase = "poll"
                  /\ slept' = ErrorBackoff
       /\ pc' = "sleep5" /\ pc # "sleep5" => exc' = NoExc /\ phase = "poll"
       /\ pc' = "sleep10" /\ pc # "sleep10"
          => exc'.type \in Exceptions /\ phase = "poll"]_vars

\* A poll is about to be sent after the back-off that followed a failed
\* iteration, the history fetch long done.
C22_Witness ==
    /\ pc = "poll_get" /\ slept = ErrorBackoff
    /\ fetch = [history |-> 1, pageSize |-> PollPageSize]
    /\ seen_activity_names # {}

\* The command line ran main with a command that needs the API.
MainRan == call.fn = "main" /\ result # NoResult /\ call.command # "config set"

EnvKeyGiven ==
    "JCAT_API_KEY" \in DOMAIN call.environ /\ call.environ["JCAT_API_KEY"] # ""

\* The config file is absent or holds a JSON object.
ConfigLoads == call.file.valid

\* The key the claim names: the environment's when set and non-empty, else
\* the config file's api_key; "" when neither gives one.
ResolvedKey ==
    IF EnvKeyGiven THEN call.environ["JCAT_API_KEY"]
    ELSE IF call.file.exists /\ "api_key" \in DOMAIN call.file.content
    THEN call.file.content["api_key"]
    ELSE ""

Places(trace, op) == {i \in 1..Len(trace) : trace[i].op = op}

SuccessLine == [op |-> "print", line |-> "Message sent successfully."]

\* C24: handle_session_message sends exactly one POST, to
\* '{session_id}:sendMessage' with the body {prompt}; it prints 'Message
\* sent successfully.' only after that POST has returned; when the POST
\* raises nothing of success is printed and the error reaches the caller.
C24_OnePostThenSuccess ==
    call.fn = "handle_session_message" /\ result # NoResult
    => LET posts == Places(result.trace, "post")
           successes == {i \in 1..Len(result.trace) : result.trace[i] = SuccessLine}
       IN  /\ Cardinality(posts) = 1
           /\ \A i \in posts :
                /\ result.trace[i].endpoint = call.session_id \o ":sendMessage"
                /\ result.trace[i].data = [prompt |-> call.prompt]
                /\ \A j \in successes : i < j
           /\ IF call.post_raises
              THEN result.raised = "RequestException" /\ successes = {}
              ELSE result.raised = "none" /\ Cardinality(successes) = 1

\* The POST failed and the call ended with the exception, the success line
\* never printed.
C24_Witness ==
    /\ call.fn = "handle_session_message" /\ call.post_raises
    /\ result # NoResult
    /\ result.raised = "RequestException"
    /\ Len(result.trace) = 2

\* handle_session_interactive ran and reached the session prompt.
Selecting ==
    /\ call.fn = "handle_session_interactive" /\ result # NoResult
    /\ ~call.get_raises
    /\ "sessions" \in DOMAIN call.sessions_data
    /\ call.sessions_data.sessions # <<>>
    /\ \A i \in 1..Len(call.sessions_data.sessions) :
            "name" \in DOMAIN call.sessions_data.sessions[i]

\* C25: in handle_session_interactive, a selected session and 'Follow' call
\* handle_session_follow exactly once with that session id; a cancelled
\* session selection, 'Cancel', or an empty message call neither handler;
\* 'Send Message' with a non-empty text calls handle_session_message exactly
\* once with the selected session id and that text.
C25_InteractiveDispatch ==
    Selecting
    => LET selected == call.selected_session_id
           text == call.message_prompt
       IN  /\ selected # {} /\ call.action = {"Follow"}
              => result.handled = <<[handler |-> "handle_session_follow",
                                     session_id |-> selected, prompt |-> {}]>>
           /\ \/ selected = {}
              \/ call.action = {"Cancel"}
              \/ call.action = {"Send Message"} /\ text \in {{}, {""}}
              => result.handled = <<>>
           /\ selected # {} /\ call.action = {"Send Message"} /\ text \notin {{}, {""}}
              => result.handled = <<[handler |-> "handle_session_message",
                                     session_id |-> selected, prompt |-> text]>>

\* 'Send Message' was chosen for the second session and the message left
\* empty: nothing was called.
C25_Witness ==
    /\ Selecting
    /\ call.selected_session_id = {"sessions/s2"}
    /\ call.action = {"Send Message"} /\ call.message_prompt = {""}
    /\ result.handled = <<>> /\ result.raised = "none"

\* The prompt of n was answered and print_activity returned for it.
Answered(n) == stat[n].asked >= 1 /\ stat[n].completed >= 1

\* C26: within one follow invocation at most one commit POST is sent for any
\* activity name, and once a sessionCompleted activity was rendered and its
\* prompt answered (accepted or declined, the POST succeeded or failed) no
\* later poll prompts or POSTs for that name again.
C26_AtMostOneCommitPerName ==
    [][\A n \in Names :
          /\ stat'[n].posted <= 1
          /\ stat'[n].asked <= 1
          /\ Answered(n) /\ ~(pc \in {"idle", "done", "raised"} /\ pc' = "history_get")
             => /\ stat'[n].asked = stat[n].asked
                /\ stat'[n].posted = stat[n].posted
                /\ stat'[n].accepted = stat[n].accepted
                /\ stat'[n].failed = stat[n].failed
                /\ InPrintActivity' => batch'[idx'].name # n]_vars

\* The commit of a completed session was posted and later polls returned
\* the activity again, to no effect.
C26_Witness ==
    \E n \in Names :
        /\ Answered(n) /\ stat[n].posted = 1
        /\ phase = "poll" /\ pc = "sleep5" /\ slept = PollInterval
        /\ stat[n].returned >= 2
        /\ \E i \in 1..Len(response) :
                "name" \in DOMAIN response[i] /\ response[i].name = n

\* The step is a failure of the history phase: an Exception raised by the
\* fetch, the sort or a rendering.
HistoryFails ==
    /\ phase = "history" /\ pc \in {"history_get", "print", "confirm", "post"}
    /\ exc' # exc /\ exc'.type \in Exceptions

\* C27: when the history phase fails part-way (the fetch raises, or sorting
\* or rendering raises an exception that is no interrupt) the failure is
\* reported, the poll loop is entered all the same, and seen_activity_names
\* then holds exactly the names of the history activities whose rendering
\* completed before the failure; the others are unseen.
C27_HistoryFailureKeepsRendered ==
    [][HistoryFails
       => /\ msg' = "Could not fetch recent activity history"
          /\ exc'.phase = "history"
          /\ pc' = "poll_get" /\ phase' = "poll"
          /\ seen_activity_names' = {n \in Names : stat'[n].completed >= 1}
          /\ pc = "print" => batch[idx].name \notin seen_activity_names']_vars

\* The first history activity was rendered, the second raised, and the poll
\* loop starts with the first name only.
C27_Witness ==
    /\ pc = "poll_get" /\ phase = "poll"
    /\ exc = [type |-> "AttributeError", phase |-> "history"]
    /\ Len(batch) = 2
    /\ seen_activity_names = {batch[1].name}
    /\ batch[2].name # batch[1].name
    /\ msg = "Could not fetch recent activity history"

\* The server stamps every activity, never earlier than the one before it.
ServerOrdered ==
    /\ \A i \in 1..Len(feed) : "createTime" \in DOMAIN feed[i]
    /\ \A i, j \in 1..Len(feed) :
            i < j => ~StrLess(feed[j].createTime, feed[i].createTime)

\* The step calls print_activity on an activity.
Renders == pc' = "print" /\ (pc # "print" \/ idx' # idx)

\* C28: over a whole follow invocation, history batch and polls together,
\* the activities are rendered in non-decreasing createTime order, provided
\* the server's createTime never decreases in append order and every fetch
\* returns the newest activities of the feed.
C28_RenderedInCreateTimeOrder ==
    [][ServerOrdered /\ Renders
       => /\ last_create_time' = batch'[idx'].createTime
          /\ last_create_time # <<>>
             => ~StrLess(last_create_time', last_create_time)]_vars

\* A poll renders an activity stamped later than one rendered before it.
C28_Witness ==
    /\ ServerOrdered
    /\ phase = "poll" /\ pc = "print"
    /\ \E i \in 1..Len(feed) :
        /\ feed[i].name \in seen_activity_names
        /\ StrLess(feed[i].createTime, last_create_time)

\* C29: print_activity called without a client (client=None) never shows a
\* confirmation prompt and never sends a POST, whatever the kind of the
\* activity, a sessionCompleted activity with commit info included, and
\* whatever the user would have answered: it only prints.
C29_NoClientNoPromptNoPost ==
    call.fn = "print_activity" /\ result # NoResult /\ ~call.client
    => /\ result.asked = <<>>
       /\ result.posted = <<>>
       /\ result.report = "(none)"

\* A completed session with a prepared commit was printed without a client,
\* the user ready to say yes.
C29_Witness ==
    /\ call.fn = "print_activity" /\ result # NoResult /\ ~call.client
    /\ call.answer
    /\ HasCommitInfo(call.activity)
    /\ result.raised = "none"
    /\ result.bodies = <<"sessionCompleted">>

\* truncate_output was called with no keyword at all.
DefaultCall == call.fn = "truncate_output" /\ result # NoResult /\ call.kwargs = EmptyDict

\* C30: with the default parameters (max_lines=25, head=10, tail=10)
\* truncate_output is idempotent, truncate_output(truncate_output(x)) is
\* truncate_output(x) for every x, and its output never has more lines than
\* its input.
C30_DefaultsIdempotent ==
    DefaultCall
    => LET once == result
           twice == CallTruncate(once.value, EmptyDict)
       IN  /\ once.raised = "none" /\ twice.raised = "none"
           /\ twice.value = once.value
           /\ Len(once.value) <= Len(call.output)

\* 40 lines were cut to 21, which a second call leaves alone.
C30_Witness ==
    /\ DefaultCall
    /\ Len(call.output) = DefaultMaxLines + 15
    /\ Len(result.value) = DefaultHead + 1 + DefaultTail
    /\ result.value # call.output

====
